---- MODULE Spec2Model ----
(***************************************************************************)
(* Barcode scan confirmation of the Nettech retail client.                 *)
(*                                                                         *)
(* Two variants of the camera screen exist in the source:                  *)
(*   variant "A"  src/src/screens/CameraScreen.tsx  (multi-read            *)
(*                confirmation: 3 identical reads, cooldown, timeout)      *)
(*   variant "B"  src/unnamed/part_002              (single-read debounce) *)
(* Both dispatch findProductByBarcode (src/unnamed/part_000) and react to  *)
(* its result with a navigation or an alert.                               *)
(*                                                                         *)
(* Time.  The code reads Date.now() and only ever uses the difference      *)
(* between two readings, or a setTimeout delay.  The model therefore keeps *)
(* clocks: sinceLastScan is Date.now() - lastScanTime.current, and a       *)
(* pending timer carries the milliseconds left before it fires.  Clocks    *)
(* saturate at ClockCap, which is above every window the code compares     *)
(* with.  lastScanTime.current = 0 (the epoch) is the saturated clock.     *)
(* A pending timer fires when its delay has elapsed: time does not pass    *)
(* beyond the deadline of a pending timer, and at the deadline the order   *)
(* of the timer callback and a scan callback is open.                      *)
(*                                                                         *)
(* React state (isProcessing, isConfirming, confirmProgress) is taken as   *)
(* committed before the next callback runs.                                *)
(*                                                                         *)
(* Beside the camera screen the module holds the auto-hide timer of the    *)
(* dashboard (src/unnamed/part_003), one call of a lookup function of the  *)
(* api module taken step by step (src/unnamed/part_000), and the product   *)
(* list with its search, paging and filters (src/unnamed/part_001 and      *)
(* src/src/screens/ProductListScreen.tsx).  Each has its own               *)
(* specification; the screens share no state.                              *)
(***************************************************************************)
EXTENDS Integers, Sequences, FiniteSets, TLC

\* ------------------------------------------------------------ constants
SCAN_COOLDOWN == 500
CONFIRM_COUNT == 3
CONFIRM_TIMEOUT == 2500
SCAN_DEBOUNCE == 1500
AUTO_HIDE_DELAY == 4000
\* The delay of the abort timer of every lookup function of the api module.
ABORT_DELAY == 30000
\* Product list: the delay of the search timer, the trimmed length a query
\* needs to be searched for, and itemsPerPage, the length of a full page.
SEARCH_DEBOUNCE == 500
MIN_QUERY == 2
PAGE_SIZE == 50

\* Dimensions.get('window') of the device at hand, in dp.
SCREEN_WIDTH == 400
SCREEN_HEIGHT == 800

\* ------------------------------------------------------------ bounds
\* Codes the scanner may report in one camera frame.
MaxCodes == 2
\* Clocks saturate here (ms); above CONFIRM_TIMEOUT and SCAN_DEBOUNCE.
ClockCap == 3000
\* Accepted reads the buffer may hold before further reads are cut off.
MaxBuf == 5
\* Lookups that may be in flight at once.
MaxInFlight == 2
\* Alerts that may be on screen, unacknowledged, at once.
MaxNotices == 1
\* Saturation of the time (ms) a lookup call has been pending.
MaxElapsed == 50000
\* Product list: searchProducts calls that may be in flight at once, the
\* highest page asked for, the pages the list may show, and the saturation
\* of the time (ms) since the query was edited.
MaxRequests == 2
MaxPage == 2
MaxShown == 2
MaxSinceEdit == 500

\* Barcode values the scanner delivers.
Values == {"A", "B"}
\* Amounts of time (ms) that may pass between two callbacks.
TimeSteps == {500}
\* Amounts of time (ms) that may pass between two steps of a lookup call.
NetSteps == {5000, 10000}
\* Amounts of time (ms) that may pass between two callbacks of the product list.
ListSteps == {250}

Variants == {"A", "B"}

Min(a, b) == IF a < b THEN a ELSE b

VARIABLES
    variant,          \* which CameraScreen is running
    isProcessing,     \* useState(false)
    isConfirming,     \* useState(false)            (variant A)
    confirmProgress,  \* useState(0): numerator n of n / CONFIRM_COUNT (variant A)
    sinceLastScan,    \* Date.now() - lastScanTime.current, saturated
    barcodeBuffer,    \* barcodeBuffer.current       (variant A)
    confirmTimeout,   \* confirmTimeout.current: [pending, left] (variant A)
    confirmTimers,    \* setTimeout timers of the camera screen the runtime holds pending
    focused,          \* the screen has the navigation focus
    inFlight,         \* barcodes of the findProductByBarcode calls not yet returned
    notices,          \* alerts shown and not yet acknowledged
    navigated,        \* payload of the last navigation to ProductDetail, or "none"
    last,             \* observation: what the last callback did
    run,              \* observation: the run of identical, spaced reads in progress (variant A)
    sinceRead,        \* observation: time since the last delivery (variant A)
    sinceDispatch,    \* observation: time since the last dispatch (variant B)
    refocused,        \* observation: a focus or blur happened since the last dispatch (variant B)
    platform,         \* Platform.OS
    format,           \* useCameraFormat(...): [known, videoWidth, videoHeight] (variant B)
    codes,            \* the codes of the camera frame at hand
    scanned,          \* onCodeScanned has run on codes
    passed,           \* the call of handleBarcodeScanned it made: [index, value], index 0 if none
    dashboard,        \* the DashboardScreen: [mounted, isTabBarVisible, autoHideTimer, timers]
    call,             \* one call of a lookup function of the api module, step by step
    list              \* the ProductListScreen

camVars == <<variant, isProcessing, isConfirming, confirmProgress, sinceLastScan,
             barcodeBuffer, confirmTimeout, confirmTimers, focused, inFlight, notices,
             navigated>>
obsVars == <<last, run, sinceRead, sinceDispatch, refocused>>
filterVars == <<platform, format, codes, scanned, passed>>
\* What the callbacks of the camera screen never touch.
offCamera == <<filterVars, dashboard, call, list>>
vars == <<camVars, obsVars, filterVars, dashboard, call, list>>

NoTimer == [pending |-> FALSE, left |-> 0]
NoFormat == [known |-> FALSE, videoWidth |-> 0, videoHeight |-> 0]
NoCall == [index |-> 0, value |-> "none"]

\* autoHideTimer.current: held tells that the ref is not null, pending that the
\* timer behind it is set and has neither fired nor been cleared.
NoAutoHideTimer == [held |-> FALSE, pending |-> FALSE, left |-> 0]

\* The DashboardScreen is not mounted.
NoDashboard == [mounted |-> FALSE, isTabBarVisible |-> FALSE,
                autoHideTimer |-> NoAutoHideTimer, timers |-> 0]

\* No call of a lookup function has been made.
NoLookup == [fn |-> "none", step |-> "idle", elapsed |-> 0, abortTimer |-> NoTimer,
             timers |-> 0, outcome |-> "none"]

\* The ProductListScreen is not mounted.
NoList == [mounted |-> FALSE]

\* No search timer: the effect has set none, or its cleanup has cleared it.
NoSearchTimer == [pending |-> FALSE, left |-> 0, query |-> <<>>, filters |-> "none"]

\* What a callback of the product list reports of itself: the requests it
\* issued and, for a response, the request answered and the answer.
NoListOp == [op |-> "mount", issued |-> <<>>, request |-> "none", ok |-> FALSE, size |-> 0]

\* The record of a callback that has nothing to report.
\* buffer is barcodeBuffer as the callback made it by its push (a scan) or found
\* it before clearing it (timer, blur, focus).
NoOp == [op |-> "init", barcode |-> "none", accepted |-> FALSE, dispatched |-> FALSE,
         buffer |-> <<>>, wasProcessing |-> FALSE, outcome |-> "none",
         notice |-> "none", gap |-> 0, refocused |-> FALSE]

\* No run of reads is in progress.
NoRun == [n |-> 0, v |-> "none", idle |-> FALSE, disp |-> 0]

\* ------------------------------------------------------------ frame filter
\* Exact for the dimensions above: SCREEN_WIDTH * 0.7 and the halves are whole.
FRAME_SIZE == (SCREEN_WIDTH * 7) \div 10
SCAN_FRAME_LEFT == (SCREEN_WIDTH - FRAME_SIZE) \div 2
SCAN_FRAME_RIGHT == SCAN_FRAME_LEFT + FRAME_SIZE
SCAN_FRAME_TOP == (SCREEN_HEIGHT - FRAME_SIZE) \div 2
SCAN_FRAME_BOTTOM == SCAN_FRAME_TOP + FRAME_SIZE

Platforms == {"ios", "android"}
Formats == {NoFormat,
            [known |-> TRUE, videoWidth |-> 1920, videoHeight |-> 1080],
            [known |-> TRUE, videoWidth |-> 1080, videoHeight |-> 1920]}

\* code.value as the scanner may report it: absent, empty, or a barcode.
CodeValues == {"undefined", ""} \cup Values

Box(x, y, width, height) ==
    [present |-> TRUE, x |-> x, y |-> y, width |-> width, height |-> height]
NoBox == [present |-> FALSE, x |-> 0, y |-> 0, width |-> 0, height |-> 0]

\* code.frame as the scanner may report it: absent, or a box whose center is
\* on a corner of the scan frame or half a unit off it, read as dp (the first
\* four) or as sensor coordinates of a 1920 x 1080 camera (the last four).
CodeFrames ==
    {NoBox,
     Box(10, 210, 100, 100), Box(290, 490, 100, 100),
     Box(10, 210, 99, 100), Box(290, 490, 100, 101),
     Box(574, 112, 100, 100), Box(1246, 868, 100, 100),
     Box(574, 112, 99, 100), Box(1246, 868, 100, 101)}

\* The codes a frame is made of: a barcode with any of the frames above, or
\* no barcode with no frame or with a frame on a corner of the scan frame.
Codes ==
    [value : Values, frame : CodeFrames]
      \cup [value : CodeValues \ Values,
            frame : {NoBox, Box(10, 210, 100, 100), Box(574, 112, 100, 100)}]

Max(a, b) == IF a > b THEN a ELSE b

\* A coordinate as the fraction num / den, den > 0.
AtLeast(c, k) == c.num >= k * c.den
AtMost(c, k) == c.num <= k * c.den

\* centerX and centerY of variant A, and of variant B off iOS or without format.
PlainCenter(frame) ==
    [x |-> [num |-> 2 * frame.x + frame.width, den |-> 2],
     y |-> [num |-> 2 * frame.y + frame.height, den |-> 2]]

\* centerX and centerY of variant B on iOS with a format: sensor to screen.
SensorCenter(frame) ==
    LET camLong == Max(format.videoWidth, format.videoHeight)
        camShort == Min(format.videoWidth, format.videoHeight)
    IN  [x |-> [num |-> (2 * frame.y + frame.height) * SCREEN_WIDTH, den |-> 2 * camShort],
         y |-> [num |-> (2 * frame.x + frame.width) * SCREEN_HEIGHT, den |-> 2 * camLong]]

Center(frame) ==
    IF variant = "B" /\ platform = "ios" /\ format.known
      THEN SensorCenter(frame)
      ELSE PlainCenter(frame)

\* The containment test with the bounds left out.
InScanFrame_Strict(center) ==
    /\ ~AtMost(center.x, SCAN_FRAME_LEFT)
    /\ ~AtLeast(center.x, SCAN_FRAME_RIGHT)
    /\ ~AtMost(center.y, SCAN_FRAME_TOP)
    /\ ~AtLeast(center.y, SCAN_FRAME_BOTTOM)

InScanFrame(center) ==
    /\ AtLeast(center.x, SCAN_FRAME_LEFT)
    /\ AtMost(center.x, SCAN_FRAME_RIGHT)
    /\ AtLeast(center.y, SCAN_FRAME_TOP)
    /\ AtMost(center.y, SCAN_FRAME_BOTTOM)

\* A test of code.value that lets every value through.
Truthy_Any(value) == TRUE

\* !code.value is true of undefined and of the empty string.
Truthy(value) == value \notin {"undefined", ""}

\* The predicate of codes.find.
IsValidCode(code) ==
    IF ~Truthy(code.value) THEN FALSE
    ELSE IF ~code.frame.present THEN FALSE
    ELSE InScanFrame(Center(code.frame))

\* codes.find(...): the index of the first code the predicate holds of, 0 if none.
ValidCode(cs) ==
    IF \E i \in 1..Len(cs) : IsValidCode(cs[i])
      THEN CHOOSE i \in 1..Len(cs) :
               /\ IsValidCode(cs[i])
               /\ \A j \in 1..(i - 1) : ~IsValidCode(cs[j])
      ELSE 0

\* ------------------------------------------------------------ product lookup
\* What the network and the token store may do to one findProductByBarcode call.
NetOutcomes == {"tokenRejects", "abort", "networkError", "httpError", "bodyFails",
                "notJson", "noProduct", "product"}

\* findProductByBarcode: the result the call returns, or that it throws.  The
\* token is awaited before the try block, so its rejection leaves the function;
\* everything else is caught and turned into a result.  error is "timeout" for
\* the AbortError text and "message" for error.message.
findProductByBarcode(net) ==
    CASE net = "tokenRejects" -> [threw |-> TRUE, success |-> FALSE, data |-> FALSE, error |-> "none"]
      [] net = "product"      -> [threw |-> FALSE, success |-> TRUE, data |-> TRUE, error |-> "none"]
      [] net = "abort"        -> [threw |-> FALSE, success |-> FALSE, data |-> FALSE, error |-> "timeout"]
      [] OTHER                -> [threw |-> FALSE, success |-> FALSE, data |-> FALSE, error |-> "message"]

\* A processBarcodeRequest whose catch block shows nothing.
NoticeFor_SilentCatch(response) ==
    IF response.threw THEN "none"
    ELSE IF response.success /\ response.data THEN "none"
    ELSE "NotFound"

\* The alert processBarcodeRequest shows for a result: "Error" is the alert
\* titled 'Hata', "NotFound" the one titled 'Ürün Bulunamadı', "none" no alert.
NoticeFor(response) ==
    IF response.threw THEN "Error"
    ELSE IF response.success /\ response.data THEN "none"
    ELSE "NotFound"

\* ------------------------------------------------------------ variant A
\* clearBarcodeBuffer without its setConfirmProgress(0).
\* The timers the runtime holds once the one behind a handle is gone: cancelled
\* by clearTimeout(handle), or fired when the caller is that timer's callback.
\* A null handle cancels nothing.
Without(timer, timers) == IF timer.pending THEN timers - 1 ELSE timers

clearBarcodeBuffer_KeepsProgress ==
    /\ barcodeBuffer' = <<>>
    /\ isConfirming' = FALSE
    /\ confirmProgress' = confirmProgress
    /\ confirmTimeout' = NoTimer
    /\ confirmTimers' = Without(confirmTimeout, confirmTimers)

clearBarcodeBuffer ==
    /\ barcodeBuffer' = <<>>
    /\ isConfirming' = FALSE
    /\ confirmProgress' = 0
    /\ confirmTimeout' = NoTimer
    /\ confirmTimers' = Without(confirmTimeout, confirmTimers)

\* A setTimeout over a handle that is not cleared first.
ClearThenSet_NoClear(timer, timers) == timers + 1

\* if (confirmTimeout.current) clearTimeout(...); then setTimeout(...): the
\* timers the runtime holds afterwards.
ClearThenSet(timer, timers) == Without(timer, timers) + 1

\* processBarcodeRequest without its clearBarcodeBuffer().
processBarcodeRequestA_NoClear(barcode) ==
    /\ isProcessing' = TRUE
    /\ UNCHANGED <<barcodeBuffer, isConfirming, confirmProgress, confirmTimeout, confirmTimers>>
    /\ inFlight' = Append(inFlight, barcode)

\* processBarcodeRequest up to its await.
processBarcodeRequestA(barcode) ==
    /\ isProcessing' = TRUE
    /\ clearBarcodeBuffer
    /\ inFlight' = Append(inFlight, barcode)

\* The buffer taken whole instead of its last CONFIRM_COUNT entries.
RecentBarcodes_Whole(buffer) == buffer

\* barcodeBuffer.current.slice(-CONFIRM_COUNT)
RecentBarcodes(buffer) ==
    IF Len(buffer) <= CONFIRM_COUNT THEN buffer
    ELSE SubSeq(buffer, Len(buffer) - CONFIRM_COUNT + 1, Len(buffer))

AllSame(recentBarcodes, barcode) ==
    \A i \in 1..Len(recentBarcodes) : recentBarcodes[i] = barcode

HasEnoughScans(recentBarcodes) == Len(recentBarcodes) >= CONFIRM_COUNT

\* The cooldown test with <= for <.
CooldownActive_Inclusive == sinceLastScan <= SCAN_COOLDOWN

CooldownActive == sinceLastScan < SCAN_COOLDOWN

\* An early return placed after lastScanTime.current = now.
Skipped_Stamps(barcode) ==
    /\ sinceLastScan' = 0
    /\ UNCHANGED <<variant, isProcessing, isConfirming, confirmProgress, barcodeBuffer,
                   confirmTimeout, confirmTimers, focused, inFlight, notices, navigated>>
    /\ last' = [NoOp EXCEPT !.op = "scan", !.barcode = barcode]

\* A delivery that returns at one of the two early returns.
Skipped(barcode) ==
    /\ UNCHANGED camVars
    /\ last' = [NoOp EXCEPT !.op = "scan", !.barcode = barcode]

handleBarcodeScannedA(barcode) ==
    IF isProcessing THEN Skipped(barcode)
    ELSE IF CooldownActive THEN Skipped(barcode)
    ELSE LET pushed == Append(barcodeBuffer, barcode)
             recentBarcodes == RecentBarcodes(pushed)
             confirmed == AllSame(recentBarcodes, barcode) /\ HasEnoughScans(recentBarcodes)
         IN  /\ Len(barcodeBuffer) < MaxBuf
             /\ sinceLastScan' = 0
             /\ IF confirmed
                  THEN /\ Len(inFlight) < MaxInFlight
                       /\ processBarcodeRequestA(barcode)
                  ELSE /\ barcodeBuffer' = pushed
                       /\ isConfirming' = TRUE
                       /\ confirmProgress' = Len(recentBarcodes)
                       /\ confirmTimers' = ClearThenSet(confirmTimeout, confirmTimers)
                       /\ confirmTimeout' = [pending |-> TRUE, left |-> CONFIRM_TIMEOUT]
                       /\ UNCHANGED <<isProcessing, inFlight>>
             /\ UNCHANGED <<variant, focused, notices, navigated>>
             /\ last' = [NoOp EXCEPT !.op = "scan", !.barcode = barcode,
                                     !.accepted = TRUE, !.dispatched = (inFlight' # inFlight),
                                     !.buffer = pushed]

\* No lookup in flight, nothing accumulated, the gate open and the cooldown over.
Idle ==
    /\ inFlight = <<>>
    /\ ~isProcessing
    /\ barcodeBuffer = <<>>
    /\ sinceLastScan >= SCAN_COOLDOWN

\* The run of reads after a delivery of `barcode` that dispatched d lookups.
\* A run starts at a delivery made while no lookup is in flight, and goes on
\* with each delivery of the same value made at least SCAN_COOLDOWN and less
\* than CONFIRM_TIMEOUT after the one before; idle tells that it started from
\* Idle.  A delivery made from Idle always starts a run.
RunAfter(barcode, d) ==
    LET continues == /\ run.n \in {1, 2}
                     /\ run.v = barcode
                     /\ sinceRead >= SCAN_COOLDOWN
                     /\ sinceRead < CONFIRM_TIMEOUT
    IN  IF Idle THEN [n |-> 1, v |-> barcode, idle |-> TRUE, disp |-> d]
        ELSE IF continues THEN [run EXCEPT !.n = @ + 1, !.disp = @ + d]
        ELSE IF inFlight = <<>> THEN [n |-> 1, v |-> barcode, idle |-> FALSE, disp |-> d]
        ELSE NoRun

\* A call of handleBarcodeScanned and what is observed of it.
DeliverA(barcode) ==
    /\ variant = "A"
    /\ handleBarcodeScannedA(barcode)
    /\ run' = RunAfter(barcode, IF last'.dispatched THEN 1 ELSE 0)
    /\ sinceRead' = 0
    /\ UNCHANGED <<sinceDispatch, refocused>>

\* onCodeScanned with a frame whose valid code carries `barcode`.
ScanA(barcode) ==
    /\ DeliverA(barcode)
    /\ UNCHANGED offCamera

\* The setTimeout callback of handleBarcodeScanned.
ConfirmTimeoutFires ==
    /\ variant = "A"
    /\ confirmTimeout.pending
    /\ confirmTimeout.left = 0
    /\ clearBarcodeBuffer
    /\ UNCHANGED <<variant, isProcessing, sinceLastScan, focused, inFlight, notices, navigated>>
    /\ last' = [NoOp EXCEPT !.op = "timer", !.buffer = barcodeBuffer]
    /\ UNCHANGED <<run, sinceRead, sinceDispatch, refocused>>
    /\ UNCHANGED offCamera

\* ------------------------------------------------------------ variant B
processBarcodeRequestB(barcode) ==
    /\ isProcessing' = TRUE
    /\ inFlight' = Append(inFlight, barcode)

\* The debounce test against the cooldown of the other variant.
DebounceActive_Cooldown == sinceLastScan < SCAN_COOLDOWN

\* The debounce test with <= for <.
DebounceActive_Inclusive == sinceLastScan <= SCAN_DEBOUNCE

DebounceActive == sinceLastScan < SCAN_DEBOUNCE

handleBarcodeScannedB(barcode) ==
    IF isProcessing THEN Skipped(barcode)
    ELSE IF DebounceActive THEN Skipped(barcode)
    ELSE /\ Len(inFlight) < MaxInFlight
         /\ sinceLastScan' = 0
         /\ processBarcodeRequestB(barcode)
         /\ UNCHANGED <<variant, isConfirming, confirmProgress, barcodeBuffer,
                        confirmTimeout, confirmTimers, focused, notices, navigated>>
         /\ last' = [NoOp EXCEPT !.op = "scan", !.barcode = barcode,
                                 !.accepted = TRUE, !.dispatched = TRUE,
                                 !.gap = sinceDispatch, !.refocused = refocused]

DeliverB(barcode) ==
    /\ variant = "B"
    /\ handleBarcodeScannedB(barcode)
    /\ sinceDispatch' = IF last'.dispatched THEN 0 ELSE sinceDispatch
    /\ refocused' = IF last'.dispatched THEN FALSE ELSE refocused
    /\ UNCHANGED <<run, sinceRead>>

ScanB(barcode) ==
    /\ DeliverB(barcode)
    /\ UNCHANGED offCamera

\* ------------------------------------------------------------ the frame filter at work
\* The scanner reports one more code in the frame at hand.
Detect(code) ==
    /\ ~scanned
    /\ Len(codes) < MaxCodes
    /\ codes' = Append(codes, code)
    /\ UNCHANGED <<platform, format, scanned, passed, dashboard, call, list>>
    /\ UNCHANGED <<camVars, obsVars>>

\* onCodeScanned: the frame is filtered and the value of the valid code, if
\* there is one, goes to handleBarcodeScanned.
OnCodeScanned ==
    /\ ~scanned
    /\ scanned' = TRUE
    /\ LET validCode == ValidCode(codes)
       IN  IF validCode # 0 /\ Truthy(codes[validCode].value)
             THEN /\ passed' = [index |-> validCode, value |-> codes[validCode].value]
                  /\ \/ DeliverA(codes[validCode].value)
                     \/ DeliverB(codes[validCode].value)
             ELSE /\ passed' = NoCall
                  /\ UNCHANGED <<camVars, obsVars>>
    /\ UNCHANGED <<platform, format, codes, dashboard, call, list>>

\* The camera produces its next frame.
NextFrame ==
    /\ scanned
    /\ scanned' = FALSE
    /\ codes' = <<>>
    /\ passed' = NoCall
    /\ UNCHANGED <<platform, format, dashboard, call, list>>
    /\ UNCHANGED <<camVars, obsVars>>

\* ------------------------------------------------------------ both variants
RemoveAt(s, i) == SubSeq(s, 1, i - 1) \o SubSeq(s, i + 1, Len(s))

\* A focus effect that returns no cleanup.
blurCleanup_Nothing ==
    UNCHANGED <<sinceLastScan, barcodeBuffer, isConfirming, confirmProgress, confirmTimeout,
                confirmTimers>>

\* The cleanup the focus effect returns, run when the screen loses the focus.
blurCleanup ==
    IF variant = "A"
      THEN clearBarcodeBuffer /\ UNCHANGED sinceLastScan
      ELSE /\ sinceLastScan' = ClockCap
           /\ UNCHANGED <<barcodeBuffer, isConfirming, confirmProgress,
                             confirmTimeout, confirmTimers>>

\* The focus effect without its setIsProcessing(false).
focusEffect_KeepsProcessing ==
    /\ UNCHANGED isProcessing
    /\ IF variant = "A"
         THEN clearBarcodeBuffer /\ UNCHANGED sinceLastScan
         ELSE /\ sinceLastScan' = ClockCap
              /\ UNCHANGED <<barcodeBuffer, isConfirming, confirmProgress,
                             confirmTimeout, confirmTimers>>

\* The focus effect itself.
focusEffect ==
    /\ isProcessing' = FALSE
    /\ IF variant = "A"
         THEN clearBarcodeBuffer /\ UNCHANGED sinceLastScan
         ELSE /\ sinceLastScan' = ClockCap
              /\ UNCHANGED <<barcodeBuffer, isConfirming, confirmProgress,
                             confirmTimeout, confirmTimers>>

\* What leaves the observations of the accumulator and of the debounce alone.
ObserveRefocus ==
    /\ run' = NoRun
    /\ UNCHANGED <<sinceRead, sinceDispatch>>
    /\ refocused' = (variant = "B")

Blur ==
    /\ focused
    /\ focused' = FALSE
    /\ blurCleanup
    /\ UNCHANGED <<variant, isProcessing, inFlight, notices, navigated>>
    /\ last' = [NoOp EXCEPT !.op = "blur", !.buffer = barcodeBuffer]
    /\ ObserveRefocus
    /\ UNCHANGED offCamera

Focus ==
    /\ ~focused
    /\ focused' = TRUE
    /\ focusEffect
    /\ navigated' = "none"
    /\ UNCHANGED <<variant, inFlight, notices>>
    /\ last' = [NoOp EXCEPT !.op = "focus", !.wasProcessing = isProcessing,
                            !.buffer = barcodeBuffer, !.barcode = navigated]
    /\ ObserveRefocus
    /\ UNCHANGED offCamera

\* processBarcodeRequest after its await: the i-th lookup in flight returns.
\* A navigation to ProductDetail takes the focus from the screen, which runs
\* the cleanup of the focus effect.
LookupReturns(i, net) ==
    LET barcode == inFlight[i]
        response == findProductByBarcode(net)
        notice == NoticeFor(response)
    IN  /\ inFlight' = RemoveAt(inFlight, i)
        /\ IF notice = "none"
             THEN /\ navigated' = barcode
                  /\ focused' = FALSE
                  /\ IF focused
                       THEN blurCleanup
                       ELSE UNCHANGED <<sinceLastScan, barcodeBuffer, isConfirming,
                                        confirmProgress, confirmTimeout, confirmTimers>>
                  /\ UNCHANGED notices
                  /\ run' = IF focused THEN NoRun ELSE run
                  /\ refocused' = IF focused THEN variant = "B" ELSE refocused
             ELSE /\ Len(notices) < MaxNotices
                  /\ notices' = Append(notices, notice)
                  /\ UNCHANGED <<navigated, focused, sinceLastScan, barcodeBuffer,
                                 isConfirming, confirmProgress, confirmTimeout,
                                 confirmTimers>>
                  /\ UNCHANGED <<run, refocused>>
        /\ UNCHANGED <<variant, isProcessing>>
        /\ last' = [NoOp EXCEPT !.op = "return", !.barcode = barcode,
                                !.outcome = net, !.notice = notice]
        /\ UNCHANGED <<sinceRead, sinceDispatch>>
        /\ UNCHANGED offCamera

\* An onPress that does nothing.
onPress_Nothing == UNCHANGED isProcessing

\* The onPress of the alert's only button.
onPress == isProcessing' = FALSE

\* The user presses 'Tamam' on the alert in front.
Acknowledge ==
    /\ notices # <<>>
    /\ notices' = Tail(notices)
    /\ onPress
    /\ UNCHANGED <<variant, isConfirming, confirmProgress, sinceLastScan, barcodeBuffer,
                   confirmTimeout, confirmTimers, focused, inFlight, navigated>>
    /\ last' = [NoOp EXCEPT !.op = "ack", !.notice = Head(notices)]
    /\ UNCHANGED <<run, sinceRead, sinceDispatch, refocused>>
    /\ UNCHANGED offCamera

\* d milliseconds pass.
Tick(d) ==
    /\ confirmTimeout.pending => d <= confirmTimeout.left
    /\ sinceLastScan' = Min(ClockCap, sinceLastScan + d)
    /\ confirmTimeout' = IF confirmTimeout.pending
                           THEN [confirmTimeout EXCEPT !.left = @ - d]
                           ELSE confirmTimeout
    /\ sinceRead' = IF variant = "A" THEN Min(ClockCap, sinceRead + d) ELSE sinceRead
    /\ sinceDispatch' = IF variant = "B" THEN Min(ClockCap, sinceDispatch + d) ELSE sinceDispatch
    /\ UNCHANGED <<variant, isProcessing, isConfirming, confirmProgress, barcodeBuffer,
                   confirmTimers, focused, inFlight, notices, navigated, run, refocused>>
    /\ last' = [NoOp EXCEPT !.op = "tick"]
    /\ UNCHANGED offCamera

\* The screen is mounted and focused: the focus effect has run once.
CameraInit ==
    /\ variant \in Variants
    /\ isProcessing = FALSE
    /\ isConfirming = FALSE
    /\ confirmProgress = 0
    /\ sinceLastScan = ClockCap
    /\ barcodeBuffer = <<>>
    /\ confirmTimeout = NoTimer
    /\ confirmTimers = 0
    /\ focused = TRUE
    /\ inFlight = <<>>
    /\ notices = <<>>
    /\ navigated = "none"
    /\ last = NoOp
    /\ run = NoRun
    /\ sinceRead = ClockCap
    /\ sinceDispatch = ClockCap
    /\ refocused = FALSE

Init ==
    /\ CameraInit
    /\ platform = "android"
    /\ format = NoFormat
    /\ codes = <<>>
    /\ scanned = FALSE
    /\ passed = NoCall
    /\ dashboard = NoDashboard
    /\ call = NoLookup
    /\ list = NoList

\* Variant A has no camera format; variant B may or may not get one.
FilterInit ==
    /\ CameraInit
    /\ platform \in Platforms
    /\ format \in (IF variant = "A" THEN {NoFormat} ELSE Formats)
    /\ codes = <<>>
    /\ scanned = FALSE
    /\ passed = NoCall
    /\ dashboard = NoDashboard
    /\ call = NoLookup
    /\ list = NoList

FilterNext ==
    \/ \E code \in Codes : Detect(code)
    \/ OnCodeScanned
    \/ NextFrame

FilterSpec == FilterInit /\ [][FilterNext]_vars

Next ==
    \/ \E barcode \in Values : ScanA(barcode)
    \/ \E barcode \in Values : ScanB(barcode)
    \/ ConfirmTimeoutFires
    \/ Blur
    \/ Focus
    \/ \E i \in 1..Len(inFlight) : \E net \in NetOutcomes : LookupReturns(i, net)
    \/ Acknowledge
    \/ \E d \in TimeSteps : Tick(d)

Spec == Init /\ [][Next]_vars

\* Time passes, a timer that is due runs, and the user answers an alert.
FairSpec ==
    /\ Spec
    /\ WF_vars(\E d \in TimeSteps : Tick(d))
    /\ WF_vars(ConfirmTimeoutFires)
    /\ WF_vars(Acknowledge)

\* ------------------------------------------------------------ dashboard screen
\* if (autoHideTimer.current) clearTimeout(autoHideTimer.current): the ref
\* keeps its handle, the timer behind it is gone.
ClearAutoHide(d) ==
    IF d.autoHideTimer.held
      THEN [d EXCEPT !.timers = Without(d.autoHideTimer, @),
                     !.autoHideTimer.pending = FALSE,
                     !.autoHideTimer.left = 0]
      ELSE d

resetAutoHideTimer(d) ==
    LET cleared == ClearAutoHide(d)
    IN  IF cleared.isTabBarVisible
          THEN [cleared EXCEPT !.autoHideTimer = [held |-> TRUE, pending |-> TRUE,
                                                   left |-> AUTO_HIDE_DELAY],
                               !.timers = @ + 1]
          ELSE cleared

\* The effect on [isTabBarVisible, resetAutoHideTimer]: the cleanup of the
\* run before, then resetAutoHideTimer.
AutoHideEffect(d) == resetAutoHideTimer(ClearAutoHide(d))

\* The tab bar is shown or hidden (toggleTabBar, from this screen's button or
\* from elsewhere): the screen renders again and the effect runs.
TabBarVisibilityChanges ==
    /\ dashboard.mounted
    /\ dashboard' = AutoHideEffect([dashboard EXCEPT !.isTabBarVisible = ~@])
    /\ UNCHANGED <<camVars, obsVars, filterVars, call, list>>

\* The context hands the screen a new hideTabBar: resetAutoHideTimer is made
\* anew and the effect runs, the tab bar as it was.
CallbacksChange ==
    /\ dashboard.mounted
    /\ dashboard' = AutoHideEffect(dashboard)
    /\ UNCHANGED <<camVars, obsVars, filterVars, call, list>>

\* The auto-hide timer fires and calls hideTabBar(), which lies outside this
\* source: the tab bar is hidden, and the effect runs, or it stays as it is.
AutoHideFires ==
    /\ dashboard.mounted
    /\ dashboard.autoHideTimer.pending
    /\ dashboard.autoHideTimer.left = 0
    /\ LET fired == [dashboard EXCEPT !.timers = @ - 1,
                                      !.autoHideTimer.pending = FALSE]
       IN  \E visible \in {FALSE, dashboard.isTabBarVisible} :
               dashboard' = IF visible # dashboard.isTabBarVisible
                              THEN AutoHideEffect([fired EXCEPT !.isTabBarVisible = visible])
                              ELSE fired
    /\ UNCHANGED <<camVars, obsVars, filterVars, call, list>>

\* d milliseconds pass on the dashboard.
DashboardTick(d) ==
    /\ dashboard.mounted
    /\ dashboard.autoHideTimer.pending
    /\ d <= dashboard.autoHideTimer.left
    /\ dashboard' = [dashboard EXCEPT !.autoHideTimer.left = @ - d]
    /\ UNCHANGED <<camVars, obsVars, filterVars, call, list>>

\* Either screen on its own: the camera screen as in Init, or the dashboard
\* mounted with the tab bar shown or hidden and its effect run once.  The two
\* screens share no state and no timer.
TimerInit ==
    \/ Init
    \/ /\ CameraInit
       /\ platform = "android"
       /\ format = NoFormat
       /\ codes = <<>>
       /\ scanned = FALSE
       /\ passed = NoCall
       /\ \E visible \in BOOLEAN :
              dashboard = AutoHideEffect([NoDashboard EXCEPT !.mounted = TRUE,
                                                             !.isTabBarVisible = visible])
       /\ call = NoLookup
       /\ list = NoList

TimerNext ==
    \/ ~dashboard.mounted /\ Next
    \/ TabBarVisibilityChanges
    \/ CallbacksChange
    \/ AutoHideFires
    \/ \E d \in TimeSteps : DashboardTick(d)

TimerSpec == TimerInit /\ [][TimerNext]_vars


\* ------------------------------------------------------------ a lookup call, step by step
\* findProductByBarcode and searchProducts have the same shape: the token is
\* awaited, then the AbortController and its timer are made and fetch is
\* called, the timer is cleared when fetch settles, and the body is read.
\* call.elapsed is the time since the function was invoked; it stops at the
\* return.  call.timers counts the abort timers the runtime holds.
LookupFunctions == {"findProductByBarcode", "searchProducts"}

\* How the reading and decoding of the body may end, per function.
BodyOutcomes(fn) ==
    IF fn = "findProductByBarcode"
      THEN {"httpError", "bodyFails", "notJson", "noProduct", "product"}
      ELSE {"httpError", "bodyFails", "notJson", "noArray", "page"}

\* The function is called: it awaits tokenManager.getToken().
Invoke(fn) ==
    /\ call.step \in {"idle", "returned"}
    /\ call' = [NoLookup EXCEPT !.fn = fn, !.step = "token", !.timers = call.timers]
    /\ UNCHANGED <<camVars, obsVars, filterVars, dashboard, list>>

\* The token arrives: the abort timer is set and fetch is called.
TokenResolves ==
    /\ call.step = "token"
    /\ call' = [call EXCEPT !.step = "fetch",
                            !.abortTimer = [pending |-> TRUE, left |-> ABORT_DELAY],
                            !.timers = @ + 1]
    /\ UNCHANGED <<camVars, obsVars, filterVars, dashboard, list>>

\* getToken() rejects: the await is outside the try block, the function throws.
TokenRejects ==
    /\ call.step = "token"
    /\ call' = [call EXCEPT !.step = "returned", !.outcome = "tokenRejects"]
    /\ UNCHANGED <<camVars, obsVars, filterVars, dashboard, list>>

\* fetch resolves with a response: clearTimeout(timeoutId), then the body is read.
FetchResolves ==
    /\ call.step = "fetch"
    /\ call.abortTimer.pending
    /\ call' = [call EXCEPT !.step = "body", !.abortTimer = NoTimer, !.timers = @ - 1]
    /\ UNCHANGED <<camVars, obsVars, filterVars, dashboard, list>>

\* fetch rejects with a network error: the catch block clears the timer and
\* returns the failure.
FetchRejects ==
    /\ call.step = "fetch"
    /\ call.abortTimer.pending
    /\ call' = [call EXCEPT !.step = "returned", !.abortTimer = NoTimer, !.timers = @ - 1,
                            !.outcome = "networkError"]
    /\ UNCHANGED <<camVars, obsVars, filterVars, dashboard, list>>

\* The abort timer fires: controller.abort() rejects the fetch with an
\* AbortError, which the catch block turns into the timed-out failure.
AbortFires ==
    /\ call.step = "fetch"
    /\ call.abortTimer.pending
    /\ call.abortTimer.left = 0
    /\ call' = [call EXCEPT !.step = "returned", !.abortTimer = NoTimer, !.timers = @ - 1,
                            !.outcome = "abort"]
    /\ UNCHANGED <<camVars, obsVars, filterVars, dashboard, list>>

\* response.text() settles and the rest of the function runs to its return.
BodyEnds(outcome) ==
    /\ call.step = "body"
    /\ outcome \in BodyOutcomes(call.fn)
    /\ call' = [call EXCEPT !.step = "returned", !.outcome = outcome]
    /\ UNCHANGED <<camVars, obsVars, filterVars, dashboard, list>>

\* d milliseconds pass while the call is pending.
NetTick(d) ==
    /\ call.step \in {"token", "fetch", "body"}
    /\ call.abortTimer.pending => d <= call.abortTimer.left
    /\ call' = [call EXCEPT !.elapsed = Min(MaxElapsed, @ + d),
                            !.abortTimer = IF @.pending THEN [@ EXCEPT !.left = @ - d] ELSE @]
    /\ UNCHANGED <<camVars, obsVars, filterVars, dashboard, list>>

NetNext ==
    \/ \E fn \in LookupFunctions : Invoke(fn)
    \/ TokenResolves
    \/ TokenRejects
    \/ FetchResolves
    \/ FetchRejects
    \/ AbortFires
    \/ \E outcome \in BodyOutcomes(call.fn) : BodyEnds(outcome)
    \/ \E d \in NetSteps : NetTick(d)

NetSpec == Init /\ [][NetNext]_vars


\* ------------------------------------------------------------ product list
\* Two variants of the screen exist in the source:
\*   "filters"  src/unnamed/part_001                  (filter modal; the
\*              search effect depends on [searchQuery])
\*   "stock"    src/src/screens/ProductListScreen.tsx (stock option; the
\*              search effect depends on [searchQuery, stockOption, loadProducts])
\* list.filters is the applied filter combination of "filters" (categoryId,
\* brandId, modelId, byStoreStock, storeStockLimit as one value) or the
\* stockOption of "stock".  A text is a sequence of characters.  The list
\* shows pages: list.products holds, for each page shown, the request that
\* brought it.  list.timers counts the search timers the runtime holds, apart
\* from the handle the effect's cleanup closes over.  list.sinceEdit (the
\* time since the query changed), list.latest (the request issued last) and
\* list.last (what the last callback did) are observations.
Screens == {"filters", "stock"}
Blank == " "
\* The texts the user may enter; the empty text is what a short query is
\* searched as.
Queries == {<<"a", Blank>>, <<"a", "b">>, <<"a", "b", "c">>}
FiltersOf(screen) == IF screen = "filters" THEN {"route", "chosen"} ELSE {"", "stock_in"}
InitialFilters(screen) == IF screen = "filters" THEN "route" ELSE ""
\* The lengths a data array that is not empty may have.
PageSizes == {20, PAGE_SIZE}
\* The lengths of the data array an outcome may come with.
SizesOf(net) == IF net = "page" THEN PageSizes ELSE {0}
SearchOutcomes == {"tokenRejects", "abort", "networkError", "httpError", "bodyFails",
                   "notJson", "noArray", "page"}

\* String.prototype.trim on a text.
RECURSIVE TrimStart(_)
TrimStart(text) ==
    IF text # <<>> /\ Head(text) = Blank THEN TrimStart(Tail(text)) ELSE text

RECURSIVE TrimEnd(_)
TrimEnd(text) ==
    IF text # <<>> /\ text[Len(text)] = Blank
      THEN TrimEnd(SubSeq(text, 1, Len(text) - 1))
      ELSE text

Trim(text) == TrimEnd(TrimStart(text))

\* searchProducts: the result the call returns, or that it throws.  size is
\* the length of the data array of the server's answer.
searchProducts(net, size) ==
    CASE net = "tokenRejects" -> [threw |-> TRUE, success |-> FALSE, data |-> FALSE, size |-> 0]
      [] net = "page"         -> [threw |-> FALSE, success |-> TRUE, data |-> TRUE, size |-> size]
      [] net = "noArray"      -> [threw |-> FALSE, success |-> TRUE, data |-> TRUE, size |-> 0]
      [] OTHER                -> [threw |-> FALSE, success |-> FALSE, data |-> FALSE, size |-> 0]

\* A callback starts: nothing is reported of it yet.
Begin(l, op) == [l EXCEPT !.last = [NoListOp EXCEPT !.op = op]]

\* loadProducts up to its await of searchProducts.
loadProducts(l, query, filters, page) ==
    LET request == [query |-> query, filters |-> filters, page |-> page]
    IN  [l EXCEPT !.isLoading = IF page = 1 THEN TRUE ELSE @,
                  !.requests = Append(@, request),
                  !.latest = request,
                  !.last.issued = Append(@, request)]

\* A reload that leaves the page counter alone.
Reset_KeepsPage(l) == [l EXCEPT !.hasMore = TRUE]

\* setCurrentPage(1); setHasMore(true).
Reset(l) == [l EXCEPT !.currentPage = 1, !.hasMore = TRUE]

\* A cleanup that clears nothing.
SearchCleanup_Nothing(l) == [l EXCEPT !.searchTimer = NoSearchTimer]

\* The cleanup the search effect returns: clearTimeout(timeoutId).
SearchCleanup(l) ==
    IF l.searchTimer.pending
      THEN [l EXCEPT !.searchTimer = NoSearchTimer, !.timers = @ - 1]
      ELSE l

\* The body of the search effect.  The timer's callback closes over the
\* query and the filters of the render the effect ran in.
SearchEffect(l) ==
    IF Len(Trim(l.searchQuery)) < MIN_QUERY
      THEN loadProducts(Reset(l), <<>>, l.filters, 1)
      ELSE [l EXCEPT !.isSearching = TRUE,
                     !.searchTimer = [pending |-> TRUE, left |-> SEARCH_DEBOUNCE,
                                      query |-> l.searchQuery, filters |-> l.filters],
                     !.timers = @ + 1]

\* The screen after its first render and its effects: the first load, then
\* the search effect.
Mount(screen, initialSearchQuery) ==
    LET first == [mounted |-> TRUE, screen |-> screen,
                  searchQuery |-> initialSearchQuery,
                  filters |-> InitialFilters(screen),
                  products |-> <<>>, isLoading |-> TRUE, isSearching |-> FALSE,
                  currentPage |-> 1, hasMore |-> TRUE, isLoadingMore |-> FALSE,
                  searchTimer |-> NoSearchTimer, timers |-> 0, requests |-> <<>>,
                  sinceEdit |-> 0,
                  latest |-> "none", last |-> NoListOp]
    IN  SearchEffect(loadProducts(first, initialSearchQuery, InitialFilters(screen), 1))

\* The bound on the calls in flight leaves room for n more.  A callback that
\* may issue a request runs only while there is room for one.
Room(n) == Len(list.requests) + n <= MaxRequests

\* What the product list never touches.
offList == <<camVars, obsVars, filterVars, dashboard, call>>

\* onChangeText={setSearchQuery}, or the clear button: the query changes and
\* the search effect runs again, its cleanup first.
Edit(query) ==
    /\ list.mounted
    /\ query # list.searchQuery
    /\ Room(1)
    /\ list' = SearchEffect(SearchCleanup(
                   [Begin(list, "edit") EXCEPT !.searchQuery = query, !.sinceEdit = 0]))
    /\ UNCHANGED offList

\* The search timer fires.
DebounceFires ==
    /\ list.mounted
    /\ list.searchTimer.pending
    /\ list.searchTimer.left = 0
    /\ Room(1)
    /\ LET fired == [Begin(list, "debounce") EXCEPT !.searchTimer = NoSearchTimer,
                                                     !.timers = @ - 1]
           loaded == loadProducts(Reset(fired), list.searchTimer.query,
                                  list.searchTimer.filters, 1)
       IN  list' = [loaded EXCEPT !.isSearching = FALSE]
    /\ UNCHANGED offList

\* The condition of loadMoreProducts.
LoadMoreGate(l) == ~l.isLoadingMore /\ l.hasMore /\ ~l.isLoading

\* onEndReached={loadMoreProducts}.
LoadMore ==
    /\ list.mounted
    /\ IF LoadMoreGate(list)
         THEN /\ Room(1)
              /\ list.currentPage < MaxPage
              /\ LET nextPage == list.currentPage + 1
                     began == [Begin(list, "more") EXCEPT !.isLoadingMore = TRUE,
                                                          !.currentPage = nextPage]
                 IN  list' = loadProducts(began, list.searchQuery, list.filters, nextPage)
         ELSE list' = Begin(list, "more")
    /\ UNCHANGED offList

\* The Apply button of the filter modal ("filters").
ApplyFilters(filters) ==
    /\ list.mounted
    /\ list.screen = "filters"
    /\ filters \in FiltersOf("filters")
    /\ Room(1)
    /\ list' = loadProducts(Reset([Begin(list, "apply") EXCEPT !.filters = filters]),
                            list.searchQuery, filters, 1)
    /\ UNCHANGED offList

\* The Clear button of the filter modal ("filters").
ClearFilters ==
    /\ list.mounted
    /\ list.screen = "filters"
    /\ Room(1)
    /\ list' = loadProducts(Reset([Begin(list, "clear") EXCEPT
                                       !.filters = InitialFilters("filters")]),
                            list.searchQuery, InitialFilters("filters"), 1)
    /\ UNCHANGED offList

\* handleStockOptionChange ("stock"); a changed stockOption runs the search
\* effect again, its cleanup first.
StockOptionChange(option) ==
    /\ list.mounted
    /\ list.screen = "stock"
    /\ option \in FiltersOf("stock")
    /\ LET handled == loadProducts(Reset([Begin(list, "stock") EXCEPT !.filters = option]),
                                   list.searchQuery, option, 1)
       IN  list' = IF option # list.filters
                     THEN SearchEffect(SearchCleanup(handled))
                     ELSE handled
    /\ Len(list'.requests) <= MaxRequests
    /\ UNCHANGED offList

\* setHasMore(filteredProducts.length === 50).
HasMoreAfter(size) == size = PAGE_SIZE

\* The list with every successful page appended.
ProductsAfter_AlwaysAppends(products, request, response) ==
    IF ~response.threw /\ response.success /\ response.data
      THEN IF response.size > 0 THEN Append(products, request) ELSE products
      ELSE IF request.page = 1 THEN <<>> ELSE products

\* setProducts of loadProducts: a page that is not empty shows as one entry.
ProductsAfter(products, request, response) ==
    LET page == IF response.size > 0 THEN <<request>> ELSE <<>>
    IN  IF ~response.threw /\ response.success /\ response.data
          THEN IF request.page = 1 THEN page ELSE products \o page
          ELSE IF request.page = 1 THEN <<>> ELSE products

\* loadProducts after its await: the i-th searchProducts call in flight
\* settles.  A page above 1 was asked for by loadMoreProducts, whose
\* finally() resets isLoadingMore.
Response(i, net, size) ==
    /\ list.mounted
    /\ i \in 1..Len(list.requests)
    /\ LET request == list.requests[i]
           response == searchProducts(net, size)
           ok == ~response.threw /\ response.success /\ response.data
           products == ProductsAfter(list.products, request, response)
       IN  /\ Len(products) <= MaxShown
           /\ list' = [Begin(list, "response") EXCEPT
                          !.requests = RemoveAt(@, i),
                          !.products = products,
                          !.hasMore = ok /\ HasMoreAfter(response.size),
                          !.isLoading = IF request.page = 1 THEN FALSE ELSE @,
                          !.isLoadingMore = IF request.page = 1 THEN @ ELSE FALSE,
                          !.last.request = request,
                          !.last.ok = ok,
                          !.last.size = response.size]
    /\ UNCHANGED offList

\* d milliseconds pass on the product list.
ListTick(d) ==
    /\ list.mounted
    /\ list.searchTimer.pending => d <= list.searchTimer.left
    /\ list' = [Begin(list, "tick") EXCEPT
                   !.sinceEdit = Min(MaxSinceEdit, @ + d),
                   !.searchTimer = IF @.pending THEN [@ EXCEPT !.left = @ - d] ELSE @]
    /\ UNCHANGED offList

\* Either variant of the screen, entered with any query.
ListInit ==
    /\ CameraInit
    /\ variant = "A"
    /\ platform = "android"
    /\ format = NoFormat
    /\ codes = <<>>
    /\ scanned = FALSE
    /\ passed = NoCall
    /\ dashboard = NoDashboard
    /\ call = NoLookup
    /\ \E screen \in Screens : \E query \in Queries : list = Mount(screen, query)

ListNext ==
    \/ \E query \in Queries : Edit(query)
    \/ DebounceFires
    \/ LoadMore
    \/ \E filters \in FiltersOf("filters") : ApplyFilters(filters)
    \/ ClearFilters
    \/ \E option \in FiltersOf("stock") : StockOptionChange(option)
    \/ \E i \in 1..MaxRequests : \E net \in SearchOutcomes : \E size \in SizesOf(net) :
           Response(i, net, size)
    \/ \E d \in ListSteps : ListTick(d)

ListSpec == ListInit /\ [][ListNext]_vars

\* ============================================================ claims
\* The last CONFIRM_COUNT entries of s exist and all equal v.
ThreeInARow(s, v) ==
    /\ Len(s) >= 3
    /\ \A i \in (Len(s) - 2)..Len(s) : s[i] = v

\* A delivery has just ended a run of three identical, spaced reads.
ThirdRead == variant = "A" /\ last.op = "scan" /\ run.n = 3

\* The run was confirmed once, by its third read, and the buffer is empty.
ConfirmedOnce ==
    /\ run.disp = 1
    /\ last.dispatched
    /\ last.barcode = run.v
    /\ barcodeBuffer = <<>>

\* C1: at most one findProductByBarcode call is in flight at any time, in
\* both variants, whatever the interleaving of callbacks.
C1_AtMostOneLookup == Len(inFlight) <= 1

\* C2 as stated: three identical reads delivered at least SCAN_COOLDOWN and
\* less than CONFIRM_TIMEOUT apart, the first while no lookup is in flight,
\* dispatch exactly one lookup, on the third read, and leave the buffer empty.
C2_TripleConfirms == ThirdRead => ConfirmedOnce

\* C2 amended: the same for three reads the first of which is delivered from
\* Idle (no lookup in flight, isProcessing false, the buffer empty, the
\* cooldown of the previous accepted read over), with no focus or blur
\* between them.
C2_TripleFromIdleConfirms == (ThirdRead /\ run.idle) => ConfirmedOnce

C2_Witness == ThirdRead /\ run.idle /\ ConfirmedOnce /\ inFlight = <<"A">>

\* C3: a lookup is dispatched only by a read that makes three identical
\* consecutive accepted reads; the confirmation timer fires CONFIRM_TIMEOUT
\* after the last accepted read, leaves the buffer empty, isConfirming false
\* and confirmProgress 0 and shows no notice; and a buffer that holds entries
\* is reset unless a further read is accepted.
C3_NoConfirmThenReset ==
    /\ []((variant = "A" /\ last.op = "scan" /\ last.dispatched)
            => ThreeInARow(last.buffer, last.barcode))
    /\ [](last.op = "timer"
            => /\ sinceLastScan = CONFIRM_TIMEOUT
               /\ barcodeBuffer = <<>>
               /\ ~isConfirming
               /\ confirmProgress = 0
               /\ ~confirmTimeout.pending)
    /\ [][last'.op = "timer" => notices' = notices /\ inFlight' = inFlight]_vars
    /\ (barcodeBuffer # <<>>)
          ~> (barcodeBuffer = <<>> \/ (last.op = "scan" /\ last.accepted))

\* The timer has fired on a buffer in which the value changed.
C3_Witness ==
    /\ last.op = "timer"
    /\ last.buffer = <<"A", "B", "A">>
    /\ inFlight = <<>>
    /\ notices = <<>>

\* C4: an accepted read of v dispatches the lookup if and only if the buffer,
\* after v is appended, holds at least 3 entries the last 3 of which equal v;
\* earlier entries do not matter: of the reads A,B,A,A,A only the fifth
\* dispatches, with A.
C4_SlidingWindow ==
    (variant = "A" /\ last.op = "scan" /\ last.accepted)
        => /\ last.dispatched <=> ThreeInARow(last.buffer, last.barcode)
           /\ last.buffer[Len(last.buffer)] = last.barcode
           /\ last.buffer = <<"A", "B", "A", "A", "A">> => last.dispatched
           /\ last.dispatched => barcodeBuffer = <<>>
           /\ ~last.dispatched => barcodeBuffer = last.buffer

C4_Witness ==
    /\ variant = "A"
    /\ last.op = "scan"
    /\ last.buffer = <<"A", "B", "A", "A", "A">>
    /\ last.dispatched
    /\ inFlight = <<"A">>

\* C5 as stated: in variant B any two dispatches are at least SCAN_DEBOUNCE
\* apart, whatever focus and blur events come between them.
C5_DispatchesApart ==
    (variant = "B" /\ last.op = "scan" /\ last.dispatched)
        => last.gap >= SCAN_DEBOUNCE

\* C5 amended: two dispatches with no focus or blur of the screen between
\* them are at least SCAN_DEBOUNCE apart.
C5_DispatchesApartWhileFocused ==
    (variant = "B" /\ last.op = "scan" /\ last.dispatched /\ ~last.refocused)
        => last.gap >= SCAN_DEBOUNCE

\* A second dispatch, exactly SCAN_DEBOUNCE after the first.
C5_Witness ==
    /\ variant = "B"
    /\ last.op = "scan"
    /\ last.dispatched
    /\ ~last.refocused
    /\ last.gap = SCAN_DEBOUNCE

\* C7: in variant A a blur empties the buffer and cancels the pending timer,
\* and a focus leaves the accumulator idle: empty buffer, isConfirming false,
\* confirmProgress 0, no timer pending.
C7_BlurClearsFocusIdle ==
    (variant = "A" /\ last.op \in {"blur", "focus"})
        => /\ barcodeBuffer = <<>>
           /\ ~confirmTimeout.pending
           /\ ~isConfirming
           /\ confirmProgress = 0

\* The screen blurred while two reads were accumulated.
C7_Witness ==
    /\ variant = "A"
    /\ last.op = "blur"
    /\ Len(last.buffer) = 2
    /\ barcodeBuffer = <<>>

\* C8: a lookup aborted at its 30 s bound shows a notice that is neither the
\* not-found nor the generic error notice, and isProcessing is false again.
C8_TimeoutSurfaced ==
    (last.op = "return" /\ last.outcome = "abort")
        => /\ last.notice \notin {"none", "NotFound", "Error"}
           /\ ~isProcessing

\* C9: a lookup that does not end in a product shows a notice; acknowledging
\* a notice opens the gate; and as the user acknowledges, a notice on screen
\* leads to isProcessing false.
C9_FailuresRecover ==
    /\ []((last.op = "return" /\ last.outcome # "product")
            => (last.notice # "none" /\ notices # <<>>))
    /\ [](last.op = "ack" => ~isProcessing)
    /\ (notices # <<>>) ~> (~isProcessing)

\* The notice of a failed lookup was acknowledged and nothing is in the way
\* of the next scan.
C9_Witness ==
    /\ last.op = "ack"
    /\ last.notice = "NotFound"
    /\ ~isProcessing
    /\ inFlight = <<>>
    /\ notices = <<>>

\* C10: every focus event leaves isProcessing false, in both variants.
C10_FocusResetsProcessing == last.op = "focus" => ~isProcessing

\* A focus that found isProcessing true and a lookup still in flight.
C10_Witness ==
    /\ last.op = "focus"
    /\ last.wasProcessing
    /\ inFlight # <<>>
    /\ ~isProcessing

\* The center of a code's box in screen coordinates lies in the scan frame,
\* bounds included: the center of the box as reported, or, in variant B on iOS
\* with a known format, that center mapped from the sensor to the screen (the
\* sensor's long edge along the screen's height, its short edge along its width).
C6_CenterInside(code) ==
    /\ code.frame.present
    /\ LET cx2 == 2 * code.frame.x + code.frame.width
           cy2 == 2 * code.frame.y + code.frame.height
           long == Max(format.videoWidth, format.videoHeight)
           short == Min(format.videoWidth, format.videoHeight)
       IN  IF variant = "B" /\ platform = "ios" /\ format.known
             THEN /\ 2 * short * SCAN_FRAME_LEFT <= cy2 * SCREEN_WIDTH
                  /\ cy2 * SCREEN_WIDTH <= 2 * short * SCAN_FRAME_RIGHT
                  /\ 2 * long * SCAN_FRAME_TOP <= cx2 * SCREEN_HEIGHT
                  /\ cx2 * SCREEN_HEIGHT <= 2 * long * SCAN_FRAME_BOTTOM
             ELSE /\ 2 * SCAN_FRAME_LEFT <= cx2
                  /\ cx2 <= 2 * SCAN_FRAME_RIGHT
                  /\ 2 * SCAN_FRAME_TOP <= cy2
                  /\ cy2 <= 2 * SCAN_FRAME_BOTTOM

C6_HasValue(code) == code.value # "undefined" /\ code.value # ""

\* C6 as stated: no code whose center lies outside the scan frame is passed to
\* handleBarcodeScanned, and the value passed, if any, is that of the first
\* code of the frame whose center lies inside.
C6_FirstInsidePassed ==
    scanned =>
        /\ passed.index # 0 => C6_CenterInside(codes[passed.index])
        /\ passed.index # 0 =>
              /\ passed.value = codes[passed.index].value
              /\ \A j \in 1..(passed.index - 1) : ~C6_CenterInside(codes[j])

\* C6 amended: the code passed is the first code of the frame that has a
\* non-empty value and whose center lies inside the scan frame; it is passed
\* whenever there is one, and nothing is passed otherwise.
C6_FirstValuedInsidePassed ==
    scanned =>
        LET good(i) == C6_HasValue(codes[i]) /\ C6_CenterInside(codes[i])
        IN  /\ passed.index = 0 <=> ~(\E i \in 1..Len(codes) : good(i))
            /\ passed.index # 0 =>
                  /\ passed.index \in 1..Len(codes)
                  /\ good(passed.index)
                  /\ passed.value = codes[passed.index].value
                  /\ \A j \in 1..(passed.index - 1) : ~good(j)

\* The second code is passed: the first has its center half a unit outside
\* the scan frame, the second has it on the corner of the frame.
C6_Witness ==
    /\ scanned
    /\ variant = "A"
    /\ Len(codes) = 2
    /\ codes[1] = [value |-> "A", frame |-> Box(10, 210, 99, 100)]
    /\ codes[2] = [value |-> "B", frame |-> Box(10, 210, 100, 100)]
    /\ passed = [index |-> 2, value |-> "B"]

\* C11: in variant A the confirmation buffer never holds more than
\* CONFIRM_COUNT entries.
C11_BufferBounded == variant = "A" => Len(barcodeBuffer) <= CONFIRM_COUNT

\* C12: in variant A nothing is appended to the buffer while a lookup is in
\* flight.  The dispatch empties the buffer, so an entry found in it while a
\* lookup is in flight was appended after the dispatch.
C12_NoAppendInFlight == (variant = "A" /\ inFlight # <<>>) => barcodeBuffer = <<>>

\* What the cooldown stage of variant A does with a delivery.
CooldownStage ==
    IF sinceLastScan < SCAN_COOLDOWN
      THEN /\ ~last'.accepted
           /\ UNCHANGED <<barcodeBuffer, sinceLastScan, confirmTimeout,
                          isConfirming, confirmProgress, inFlight>>
      ELSE /\ last'.accepted
           /\ sinceLastScan' = 0
           /\ last'.buffer = Append(barcodeBuffer, last'.barcode)

\* C13 as stated: in variant A every delivery made less than SCAN_COOLDOWN after
\* the last accepted read is rejected and leaves the buffer, lastScanTime, the
\* timer, isConfirming and confirmProgress as they were and dispatches nothing,
\* and every delivery made SCAN_COOLDOWN or more after it is accepted.
C13_CooldownDecides ==
    [][(variant = "A" /\ last'.op = "scan") => CooldownStage]_vars

\* C13 amended: the same of every delivery made while isProcessing is false.
C13_CooldownDecidesWhenNotProcessing ==
    [][(variant = "A" /\ last'.op = "scan" /\ ~isProcessing) => CooldownStage]_vars

\* A delivery was rejected by the cooldown right after the second read of an
\* accumulation was accepted: two entries stay buffered.
C13_Witness ==
    /\ variant = "A"
    /\ last.op = "scan"
    /\ ~last.accepted
    /\ ~isProcessing
    /\ sinceLastScan = 0
    /\ Len(barcodeBuffer) = 2
    /\ confirmTimeout = [pending |-> TRUE, left |-> CONFIRM_TIMEOUT]

\* The last CONFIRM_COUNT entries of s, or all of s if it has fewer.
LastN(s) ==
    [i \in 1..Min(Len(s), CONFIRM_COUNT) |-> s[Len(s) - Min(Len(s), CONFIRM_COUNT) + i]]

\* The entries of s that equal v, counted.
Matching(s, v) == Cardinality({i \in 1..Len(s) : s[i] = v})

\* C14: in variant A, after an accepted read of v that does not confirm,
\* confirmProgress is (the number of entries equal to v among the last
\* CONFIRM_COUNT entries of the buffer) / CONFIRM_COUNT.  confirmProgress is
\* kept as the numerator of that ratio.
C14_ProgressCountsMatches ==
    (variant = "A" /\ last.op = "scan" /\ last.accepted /\ ~last.dispatched)
        => confirmProgress = Matching(LastN(barcodeBuffer), last.barcode)

\* C15: in variant B a delivery that is not accepted leaves lastScanTime as it
\* was, and a delivery made SCAN_DEBOUNCE or more after the last accepted scan
\* while isProcessing is false is accepted at once and dispatches the lookup
\* with its value.
C15_DebounceFromLastAccepted ==
    [][(variant = "B" /\ last'.op = "scan")
         => /\ ~last'.accepted => UNCHANGED <<sinceLastScan, inFlight, isProcessing>>
            /\ (sinceDispatch >= SCAN_DEBOUNCE /\ ~isProcessing)
                 => /\ last'.accepted
                    /\ last'.dispatched
                    /\ inFlight' = Append(inFlight, last'.barcode)
                    /\ isProcessing'
                    /\ sinceLastScan' = 0]_vars

\* A scan was accepted exactly SCAN_DEBOUNCE after the one before, whose
\* lookup had failed and been acknowledged in between.
C15_Witness ==
    /\ variant = "B"
    /\ last.op = "scan"
    /\ last.accepted
    /\ last.gap = SCAN_DEBOUNCE
    /\ ~last.refocused
    /\ inFlight = <<"B">>
    /\ sinceLastScan = 0

\* C16, for the callbacks that run right after the blur: the blur leaves no
\* confirmation timer pending, and a lookup that completes next after the
\* blur shows no notice, navigates nowhere and changes no state of the screen.
C16_NothingAfterBlur ==
    /\ [](last.op = "blur" => ~confirmTimeout.pending)
    /\ [][(last.op = "blur" /\ last'.op = "return")
            => UNCHANGED <<notices, navigated, isProcessing, isConfirming,
                           confirmProgress, barcodeBuffer>>]_vars

\* C17: a lookup that fails in transport or in parsing shows the generic
\* error notice, not the not-found notice.
C17_TransportFailureIsGeneric ==
    (last.op = "return"
       /\ last.outcome \in {"networkError", "httpError", "bodyFails", "notJson"})
        => last.notice = "Error"

\* C19: in both variants a delivery made while isProcessing is true changes
\* neither lastScanTime nor the buffer, the timer or confirmProgress, and
\* dispatches nothing.
C19_ProcessingGateSkips ==
    [][(last'.op = "scan" /\ isProcessing)
         => /\ ~last'.accepted
            /\ UNCHANGED <<sinceLastScan, barcodeBuffer, confirmTimeout,
                           isConfirming, confirmProgress, inFlight, isProcessing>>]_vars

\* A delivery was skipped while the not-found notice of the lookup before was
\* still on screen.
C19_Witness ==
    /\ last.op = "scan"
    /\ ~last.accepted
    /\ isProcessing
    /\ notices = <<"NotFound">>
    /\ inFlight = <<>>
    /\ sinceLastScan >= SCAN_DEBOUNCE

\* A code the scanner reported without a value or without a box.
Malformed(code) == ~C6_HasValue(code) \/ ~code.frame.present

\* C18: onCodeScanned calls handleBarcodeScanned at most once for a frame, and
\* then with the value of a code of the frame that has a value and a box; a
\* frame whose codes all lack a value or a box goes nowhere, and when nothing
\* is forwarded the state of the screen and its notices are as before.
C18_MalformedDropped ==
    [][(~scanned /\ scanned')
         => /\ passed'.index # 0
                 => /\ passed'.index \in 1..Len(codes)
                    /\ ~Malformed(codes[passed'.index])
                    /\ passed'.value = codes[passed'.index].value
                    /\ last'.op = "scan"
                    /\ last'.barcode = passed'.value
            /\ passed'.index = 0 => UNCHANGED <<camVars, last>>
            /\ (\A i \in 1..Len(codes) : Malformed(codes[i])) => passed'.index = 0
            /\ notices' = notices]_vars

\* A frame of an empty value inside the scan frame and a barcode without a
\* box was scanned after a first read had been accepted: nothing is passed
\* and that read is still the last thing that happened.
C18_Witness ==
    /\ scanned
    /\ variant = "A"
    /\ codes = << [value |-> "", frame |-> Box(10, 210, 100, 100)],
                  [value |-> "A", frame |-> NoBox] >>
    /\ passed = NoCall
    /\ last.op = "scan"
    /\ last.accepted
    /\ barcodeBuffer = <<"B">>

\* C20: the runtime never holds more than one confirmation timer of the
\* camera screen nor more than one auto-hide timer of the dashboard, and the
\* one it holds is the one the ref of the screen points at: a timer that was
\* replaced or cleared is not there to fire.
C20_OneTimerEach ==
    /\ confirmTimers <= 1
    /\ confirmTimers = 1 <=> confirmTimeout.pending
    /\ dashboard.timers <= 1
    /\ dashboard.timers = 1 <=> dashboard.autoHideTimer.pending
    /\ dashboard.autoHideTimer.pending => dashboard.autoHideTimer.held

\* A second accepted read has replaced the timer the first read had set.
C20_Witness ==
    /\ variant = "A"
    /\ last.op = "scan"
    /\ last.buffer = <<"A", "B">>
    /\ confirmTimeout = [pending |-> TRUE, left |-> CONFIRM_TIMEOUT]
    /\ confirmTimers = 1

\* C28: in variant A the accumulator's three indicators agree in every state:
\* barcodeBuffer is non-empty exactly when isConfirming is true, exactly when
\* a confirmation timer is pending; and right after a scan that dispatched a
\* lookup isConfirming is false and no timer is pending.
C28_IndicatorsAgree ==
    variant = "A" =>
        /\ (barcodeBuffer # <<>>) <=> isConfirming
        /\ isConfirming <=> confirmTimeout.pending
        /\ confirmTimeout.pending <=> (confirmTimers > 0)
        /\ (last.op = "scan" /\ last.dispatched) =>
               (~isConfirming /\ ~confirmTimeout.pending /\ confirmTimers = 0)

\* The third read of a run has just dispatched the lookup and emptied the
\* accumulator the two reads before it had filled.
C28_Witness ==
    /\ variant = "A"
    /\ last.op = "scan"
    /\ last.dispatched
    /\ last.buffer = <<"A", "A", "A">>
    /\ barcodeBuffer = <<>>
    /\ ~isConfirming

\* C22: a lookup that completes does exactly one of two things.  When its
\* result has success and data it navigates to ProductDetail with the barcode
\* the lookup was dispatched for, and shows no notice; otherwise, a thrown
\* lookup included, it shows exactly one notice and does not navigate.
C22_OneOutcome ==
    [][last'.op = "return" =>
          LET response == findProductByBarcode(last'.outcome)
          IN  /\ \E i \in 1..Len(inFlight) :
                    /\ inFlight[i] = last'.barcode
                    /\ inFlight' = RemoveAt(inFlight, i)
              /\ IF ~response.threw /\ response.success /\ response.data
                   THEN /\ navigated' = last'.barcode
                        /\ notices' = notices
                   ELSE /\ navigated' = navigated
                        /\ Len(notices') = Len(notices) + 1
                        /\ SubSeq(notices', 1, Len(notices)) = notices
                        /\ notices'[Len(notices')] \in {"Error", "NotFound"}]_vars

\* A lookup whose token retrieval rejected has returned by throwing, and the
\* one notice of the catch block is up; nothing was navigated to.
C22_Witness ==
    /\ last.op = "return"
    /\ last.outcome = "tokenRejects"
    /\ last.barcode = "A"
    /\ notices = <<"Error">>
    /\ navigated = "none"
    /\ inFlight = <<>>

\* C21: a call of findProductByBarcode or searchProducts is never pending
\* more than 30 s after it was invoked, whichever step it is in, and a call
\* that returned later than that returned the timed-out failure.
C21_BoundedDuration ==
    /\ call.step \in {"token", "fetch", "body"} => call.elapsed <= ABORT_DELAY
    /\ (call.step = "returned" /\ call.elapsed > ABORT_DELAY) => call.outcome = "abort"

\* ------------------------------------------------------------ product list claims
\* The callbacks that reload page 1 after the mount.
ReloadOps == {"debounce", "apply", "clear", "stock"}

C24_LoadMoreInOrder ==
    [][(list'.last.op = "more" /\ list'.last.issued # <<>>) =>
          /\ ~list.isLoadingMore /\ list.hasMore /\ ~list.isLoading
          /\ \A i \in 1..Len(list.requests) : list.requests[i].page = 1
          /\ Len(list'.last.issued) = 1
          /\ list'.last.issued[1].page = list.currentPage + 1
          /\ list'.last.issued[1].query = list.latest.query
          /\ list'.last.issued[1].page = list.latest.page + 1]_vars

\* C25: a response sets hasMore to whether it succeeded with exactly 50
\* products; and once hasMore is false it stays false, so that
\* loadMoreProducts issues nothing, until a page-1 reload sets it to true.
C25_HasMoreUntilReload ==
    [][/\ list'.last.op = "response" =>
              (list'.hasMore <=> (list'.last.ok /\ list'.last.size = PAGE_SIZE))
       /\ (list'.last.op = "more" /\ list'.last.issued # <<>>) => list.hasMore
       /\ (~list.hasMore /\ list'.hasMore) =>
              (list'.last.op \in ReloadOps \cup {"edit"} /\ list'.last.issued # <<>>)]_vars

\* C26: a successful page-1 response replaces the list with its page, a
\* successful response for a later page appends its page after the pages
\* shown, a failed page-1 load empties the list, and a failed load of a later
\* page leaves the list as it was.
C26_ReplaceOrAppend ==
    [][list'.last.op = "response" =>
          LET request == list'.last.request
              page == IF list'.last.size > 0 THEN <<request>> ELSE <<>>
          IN  /\ \E i \in 1..Len(list.requests) :
                    /\ list.requests[i] = request
                    /\ list'.requests = RemoveAt(list.requests, i)
              /\ (list'.last.ok /\ request.page = 1) => list'.products = page
              /\ (list'.last.ok /\ request.page > 1) =>
                     /\ SubSeq(list'.products, 1, Len(list.products)) = list.products
                     /\ SubSeq(list'.products, Len(list.products) + 1,
                               Len(list'.products)) = page
              /\ (~list'.last.ok /\ request.page = 1) => list'.products = <<>>
              /\ (~list'.last.ok /\ request.page > 1) => list'.products = list.products]_vars

\* Page 2 has come in after page 1 and stands behind it.
C26_Witness ==
    /\ list.last.op = "response"
    /\ list.last.ok
    /\ list.last.request = [query |-> <<"a", "b">>, filters |-> "chosen", page |-> 2]
    /\ list.products = << [query |-> <<"a", "b">>, filters |-> "chosen", page |-> 1],
                          [query |-> <<"a", "b">>, filters |-> "chosen", page |-> 2] >>

\* C27: every reload of page 1 after the mount (an edit to a query of trimmed
\* length below 2, the search timer, filter Apply, filter Clear, a stock
\* option change) leaves currentPage at 1 and hasMore true and asks for page
\* 1 only; and a load-more that follows a reload with no other load-more
\* between them asks for page 2.
C27_ReloadResetsPaging ==
    [][/\ (\/ list'.last.op \in ReloadOps
           \/ list'.last.op = "edit" /\ Len(Trim(list'.searchQuery)) < MIN_QUERY) =>
              /\ list'.currentPage = 1
              /\ list'.hasMore
              /\ list'.last.issued # <<>>
              /\ \A i \in 1..Len(list'.last.issued) : list'.last.issued[i].page = 1
       /\ (list'.last.op = "more" /\ list'.last.issued # <<>> /\ list.latest.page = 1) =>
              list'.last.issued[1].page = 2]_vars

\* Page 2 was shown, the filters were applied anew, page 1 came in and the
\* load-more after it has asked for page 2 again.
C27_Witness ==
    /\ list.last.op = "more"
    /\ list.last.issued = << [query |-> <<"a", "b">>, filters |-> "chosen", page |-> 2] >>
    /\ list.products = << [query |-> <<"a", "b">>, filters |-> "chosen", page |-> 1] >>
    /\ list.currentPage = 2

\* C29: once no request is in flight, every page the list shows was returned
\* for the combination of query and filters that was requested last.
C29_ListCoherent ==
    list.requests = <<>> =>
        \A i \in 1..Len(list.products) :
            /\ list.products[i].query = list.latest.query
            /\ list.products[i].filters = list.latest.filters

\* C30: isSearching is true only while a search timer is pending.
C30_SearchingOnlyWhilePending ==
    list.isSearching => (list.searchTimer.pending /\ list.timers > 0)

====
